---- MODULE Spec2Model ----
(***************************************************************************)
(* Dronacharya: the data-access layer (src/src/services/dataService.ts),   *)
(* the server routes behind its networked path (src/server.ts) and the     *)
(* test lifecycle controller (src/src/App.tsx), as one state machine.      *)
(***************************************************************************)
EXTENDS Integers, Sequences, FiniteSets, TLC

VARIABLES
    isMobile,       \* DataService.isMobile, fixed by the constructor
    db,             \* DataService.db: "null", then the connection: "closed" when
                    \* created, "empty" when opened, "open" when its tables exist
    initPc,         \* where dataService.init() and the initData effect stand
    students,       \* rows of the students table, in rowid order
    tests,          \* rows of the tests table, in rowid order
    results,        \* rows of the results table, in rowid order
    now,            \* the storage clock behind CURRENT_TIMESTAMP
    procs,          \* the Facade calls in flight or just ended, per slot
    loginLog,       \* what the logins that returned a record with an id were given and returned
    testLog,        \* what the saveTest calls that returned an id were given and returned
    resultLog,      \* what the saveResult calls that returned an id were given and returned
    student,        \* App state: the logged-in student, or null
    view,           \* App state: the view shown
    history,        \* App state: what the last history fetch gave
    loading,        \* App state: the loading flag
    currentTest,    \* App state: the test being shown or answered, or null
    studentAnswers, \* App state: the answers typed, by question id
    handler,        \* the event handler of App that is suspended at an await
    ai,             \* the request to the generative service, if one is pending
    effectPending,  \* the [student] effect is scheduled and has not run yet
    initError       \* App state: the initialization error, or null

storeVars == <<isMobile, db, initPc, students, tests, results, now>>
storeVars_noInit == <<isMobile, db, students, tests, results, now>>
ghostVars == <<loginLog, testLog, resultLog>>
appVars == <<student, view, history, loading, currentTest, studentAnswers,
             handler, ai, effectPending, initError>>
vars == <<isMobile, db, initPc, students, tests, results, now, procs,
          loginLog, testLog, resultLog,
          student, view, history, loading, currentTest, studentAnswers,
          handler, ai, effectPending, initError>>

-----------------------------------------------------------------------------
(* JavaScript values.  A value that may be a number, null or undefined is    *)
(* carried with its type tag, so that the three can be told apart.           *)

Null == [js |-> "null"]
Undefined == [js |-> "undefined"]
Num(n) == [js |-> "number", v |-> n]
Str(s) == [js |-> "string", v |-> s]
Obj(o) == [js |-> "object", v |-> o]
Text(t) == [js |-> "text", v |-> t]
Arr(a) == [js |-> "array", v |-> a]

IsNum(x) == x.js = "number"

\* Array.isArray(x), for x an object or an array
IsArray(x) == "js" \in DOMAIN x /\ x.js = "array"

\* property access on an object that may lack the property: o.id, o.error
Prop(o, f) == IF f \in DOMAIN o THEN o[f] ELSE Undefined

-----------------------------------------------------------------------------
(* JSON text is a sequence of tokens: punctuation, string literals, number   *)
(* literals (as digit strings) and the literal null.                         *)

Digits == <<"0", "1", "2", "3", "4", "5", "6", "7", "8", "9">>

P(c) == <<[k |-> "punct", v |-> c]>>
StrLit(s) == <<[k |-> "str", v |-> s]>>
\* the decimal text of a number: one digit, or the three digits of 150
Numeral(n) == IF n = 150 THEN "150" ELSE Digits[n + 1]
NumLit(n) == <<[k |-> "num", v |-> Numeral(n)]>>
NullLit == <<[k |-> "null", v |-> "null"]>>

IsPunct(tok, c) == tok.k = "punct" /\ tok.v = c

RECURSIVE JoinTexts(_)
\* the elements' texts separated by commas
JoinTexts(ts) ==
    IF ts = <<>> THEN <<>>
    ELSE IF Len(ts) = 1 THEN ts[1]
    ELSE ts[1] \o P(",") \o JoinTexts(Tail(ts))

\* JSON.stringify of a string[]
StringifyStrings(a) ==
    P("[") \o JoinTexts([i \in 1..Len(a) |-> StrLit(a[i])]) \o P("]")

\* the own properties of a Question, in the order JSON.stringify emits them
QuestionKeys == <<"id", "question", "options", "correctAnswer", "explanation">>

StringifyMember(q, key) ==
    StrLit(key) \o P(":") \o
        (IF key = "id" THEN NumLit(q[key])
         ELSE IF key = "options" THEN StringifyStrings(q[key])
         ELSE StrLit(q[key]))

\* a stringify that leaves the options array out
StringifyQuestionNoOptions(q) ==
    LET present == SelectSeq(QuestionKeys, LAMBDA key : key \in DOMAIN q /\ key # "options")
    IN  P("{") \o JoinTexts([i \in 1..Len(present) |-> StringifyMember(q, present[i])])
               \o P("}")

\* JSON.stringify of one Question: a property the object lacks emits nothing
StringifyQuestion(q) ==
    LET present == SelectSeq(QuestionKeys, LAMBDA key : key \in DOMAIN q)
    IN  P("{") \o JoinTexts([i \in 1..Len(present) |-> StringifyMember(q, present[i])])
               \o P("}")

\* JSON.stringify(questions)
StringifyQuestions(Q) ==
    P("[") \o JoinTexts([i \in 1..Len(Q) |-> StringifyQuestion(Q[i])]) \o P("]")

AnalysisKeys == <<"strengths", "weaknesses", "suggestions">>

\* JSON.stringify(analysis); JSON.stringify(undefined) is undefined, not a text
StringifyAnalysis(a) ==
    IF a = Undefined THEN Undefined
    ELSE IF a = Null THEN Text(NullLit)
    ELSE LET present == SelectSeq(AnalysisKeys, LAMBDA key : key \in DOMAIN a.v)
         IN Text(P("{") \o JoinTexts([i \in 1..Len(present) |->
                        StrLit(present[i]) \o P(":") \o StringifyStrings(a.v[present[i]])])
                 \o P("}"))

\* JSON.stringify(answers): the keys of a Record<number, string> are emitted
\* as strings, in ascending numeric order
StringifyAnswers(m) ==
    LET keys == DOMAIN m
        RECURSIVE Members(_)
        Members(ks) ==
            IF ks = {} THEN <<>>
            ELSE LET lo == CHOOSE x \in ks : \A y \in ks : x <= y
                 IN  <<StrLit(Digits[lo + 1]) \o P(":") \o StrLit(m[lo])>>
                         \o Members(ks \ {lo})
    IN  P("{") \o JoinTexts(Members(keys)) \o P("}")

StrToNum(s) == CHOOSE n \in 0..9 \cup {150} : Numeral(n) = s

Malformed == [ok |-> FALSE]

RECURSIVE ParseValue(_, _), ParseElements(_, _, _), ParseMembers(_, _, _)
\* JSON.parse, one value starting at token i: [ok, val, next] or Malformed
ParseValue(t, i) ==
    IF i > Len(t) THEN Malformed
    ELSE IF t[i].k = "str" THEN [ok |-> TRUE, val |-> t[i].v, next |-> i + 1]
    ELSE IF t[i].k = "num" THEN [ok |-> TRUE, val |-> StrToNum(t[i].v), next |-> i + 1]
    ELSE IF t[i].k = "null" THEN [ok |-> TRUE, val |-> Null, next |-> i + 1]
    ELSE IF IsPunct(t[i], "[") THEN
        IF i + 1 <= Len(t) /\ IsPunct(t[i + 1], "]")
        THEN [ok |-> TRUE, val |-> <<>>, next |-> i + 2]
        ELSE ParseElements(t, i + 1, <<>>)
    ELSE IF IsPunct(t[i], "{") THEN
        IF i + 1 <= Len(t) /\ IsPunct(t[i + 1], "}")
        THEN [ok |-> TRUE, val |-> <<>>, next |-> i + 2]
        ELSE ParseMembers(t, i + 1, <<>>)
    ELSE Malformed

\* the elements of an array, after "[" or ","
ParseElements(t, i, acc) ==
    LET e == ParseValue(t, i)
    IN  IF ~e.ok \/ e.next > Len(t) THEN Malformed
        ELSE IF IsPunct(t[e.next], ",") THEN ParseElements(t, e.next + 1, Append(acc, e.val))
        ELSE IF IsPunct(t[e.next], "]")
             THEN [ok |-> TRUE, val |-> Append(acc, e.val), next |-> e.next + 1]
        ELSE Malformed

\* the members of an object, after "{" or ","
ParseMembers(t, i, acc) ==
    IF i + 1 > Len(t) \/ t[i].k # "str" \/ ~IsPunct(t[i + 1], ":") THEN Malformed
    ELSE LET e == ParseValue(t, i + 2)
             obj == (t[i].v :> (IF e.ok THEN e.val ELSE Null)) @@ acc
         IN  IF ~e.ok \/ e.next > Len(t) THEN Malformed
             ELSE IF IsPunct(t[e.next], ",") THEN ParseMembers(t, e.next + 1, obj)
             ELSE IF IsPunct(t[e.next], "}")
                  THEN [ok |-> TRUE, val |-> obj, next |-> e.next + 1]
             ELSE Malformed

\* JSON.parse(text): the whole text must be one value
JSONParse(t) ==
    LET r == ParseValue(t, 1)
    IN  IF r.ok /\ r.next = Len(t) + 1 THEN r ELSE Malformed

-----------------------------------------------------------------------------
(* Bounds and the inputs the calls are issued with.                          *)

MaxStudents == 2    \* rows of the students table
MaxTests == 2       \* rows of the tests table
MaxResults == 1     \* rows of the results table
MaxClock == 2       \* ticks of the storage clock
MaxOrderTests == 3  \* rows of the tests table in the runs about history order
MaxLoginRows == 3   \* rows of the students table in the runs about login
NumSlots == 2       \* Facade calls that can be in flight together

Slots == 1..NumSlots

\* (name, age, class) triples: a base triple and one differing in each component
Triples == { [name |-> "Ann", age |-> 10, className |-> "5th"],
             [name |-> "Bob", age |-> 10, className |-> "5th"],
             [name |-> "Ann", age |-> 11, className |-> "5th"],
             [name |-> "Ann", age |-> 10, className |-> "6th"] }

\* the triples the general runs log in with
SomeTriples == { t \in Triples : t.age = 10 /\ t.className = "5th" }

QOptions == [id |-> 1, question |-> "1/2+1/4=?",
             options |-> <<"1/4", "3/4", "1/2", "1">>,
             correctAnswer |-> "3/4", explanation |-> "..."]
QPlain == [id |-> 2, question |-> "2+2=?", correctAnswer |-> "4", explanation |-> "sum"]

\* question sequences: questions with and without the options array
QuestionSeqs == { <<QPlain>>, <<QOptions, QPlain>> }

Topics == {"Fractions"}
Answers == (1 :> "3/4")
Analyses == { Obj([strengths |-> <<"fractions">>, weaknesses |-> <<>>,
                   suggestions |-> <<>>]) }
Scores == { Num(100) }
Feedbacks == { Str("Great job!") }

\* ids a caller can pass: ids of rows that may exist, and undefined
IdArgs == { Num(1), Num(2) }

-----------------------------------------------------------------------------
(* The relational store.  Both backends keep the same three tables; the      *)
(* networked one declares UNIQUE(name, age, class) and the foreign keys,     *)
(* the embedded one declares neither.                                        *)

Matches(row, name, age, className) ==
    row.name = name /\ row.age = age /\ row.class = className

\* SELECT * FROM students WHERE name = ? AND age = ? AND class = ?, in rowid order
SelectStudents(name, age, className) ==
    SelectSeq(students, LAMBDA row : Matches(row, name, age, className))

\* the students table declares UNIQUE(name, age, class) in the server schema
\* only (mobile: the schema of the embedded backend)
UniqueTripleOn(mobile) == ~mobile
UniqueTriple == UniqueTripleOn(isMobile)

\* the FOREIGN KEY clauses exist in the server schema only
ForeignKeysOn(mobile) == ~mobile
ForeignKeys == ForeignKeysOn(isMobile)

\* INSERT INTO students: TRUE when a constraint rejects the row
StudentRejectedOn(mobile, name, age, className) ==
    UniqueTripleOn(mobile) /\ SelectStudents(name, age, className) # <<>>
StudentRejected(name, age, className) ==
    StudentRejectedOn(isMobile, name, age, className)

\* the row INSERT INTO students adds; AUTOINCREMENT ids follow the largest used
NewStudent(name, age, className) ==
    [id |-> Len(students) + 1, name |-> name, age |-> age, class |-> className]

\* a parameter bound to a statement: undefined is bound as NULL
Bind(v) == IF v = Undefined THEN Null ELSE v

\* INSERT INTO tests: NOT NULL student_id, and the foreign key where declared
TestRejectedOn(mobile, studentId) ==
    \/ Bind(studentId) = Null
    \/ ForeignKeysOn(mobile) /\ ~\E i \in 1..Len(students) : students[i].id = studentId.v
TestRejected(studentId) == TestRejectedOn(isMobile, studentId)

NewTest(studentId, topic, complexity, concepts, questionsText) ==
    [id |-> Len(tests) + 1, student_id |-> studentId.v, topic |-> topic,
     complexity |-> complexity, concepts |-> concepts,
     questions |-> questionsText, created_at |-> now]

\* INSERT INTO results: NOT NULL test_id and answers, and the foreign key
ResultRejectedOn(mobile, testId, answersText) ==
    \/ Bind(testId) = Null
    \/ Bind(answersText) = Null
    \/ ForeignKeysOn(mobile) /\ ~\E i \in 1..Len(tests) : tests[i].id = testId.v
ResultRejected(testId, answersText) == ResultRejectedOn(isMobile, testId, answersText)

NewResult(testId, answersText, score, feedback, analysisText) ==
    [id |-> Len(results) + 1, test_id |-> testId.v, answers |-> answersText,
     score |-> Bind(score), feedback |-> Bind(feedback),
     analysis |-> Bind(analysisText), completed_at |-> Num(now)]

RECURSIVE Perms(_)
\* every ordering of a finite set
Perms(S) ==
    IF S = {} THEN { <<>> }
    ELSE UNION { { <<x>> \o s : s \in Perms(S \ {x}) } : x \in S }

\* an inner join in place of the LEFT JOIN: tests without a result are dropped
JoinPairsInner(studentId) ==
    { <<i, j>> \in (1..Len(tests)) \X (1..Len(results)) :
        /\ IsNum(studentId) /\ tests[i].student_id = studentId.v
        /\ results[j].test_id = tests[i].id }

\* tests t LEFT JOIN results r ON t.id = r.test_id WHERE t.student_id = ?
\* as pairs <<index in tests, index in results or 0>>; a parameter that is no
\* number (undefined, NULL) equals no student_id
JoinPairs(studentId) ==
    LET mine == { i \in 1..Len(tests) : IsNum(studentId) /\ tests[i].student_id = studentId.v }
        of(i) == { j \in 1..Len(results) : results[j].test_id = tests[i].id }
    IN  UNION { IF of(i) = {} THEN { <<i, 0>> } ELSE { <<i, j>> : j \in of(i) } : i \in mine }

\* ORDER BY t.created_at ASC in place of DESC
HistoryOrdersAscending(studentId) ==
    { s \in Perms(JoinPairs(studentId)) :
        \A a, b \in 1..Len(s) :
            a < b => tests[s[a][1]].created_at <= tests[s[b][1]].created_at }

\* ORDER BY t.created_at DESC: rows with equal created_at come in any order
HistoryOrders(studentId) ==
    { s \in Perms(JoinPairs(studentId)) :
        \A a, b \in 1..Len(s) :
            a < b => tests[s[a][1]].created_at >= tests[s[b][1]].created_at }

\* one row of SELECT t.*, r.score, r.feedback, r.analysis, r.completed_at
JoinRow(pair) ==
    LET t == tests[pair[1]]
        none == pair[2] = 0
    IN  [id |-> Num(t.id), student_id |-> Num(t.student_id), topic |-> t.topic,
         complexity |-> t.complexity, concepts |-> t.concepts,
         questions |-> t.questions, created_at |-> Num(t.created_at),
         score |-> IF none THEN Null ELSE results[pair[2]].score,
         feedback |-> IF none THEN Null ELSE results[pair[2]].feedback,
         analysis |-> IF none THEN Null ELSE results[pair[2]].analysis,
         completed_at |-> IF none THEN Null ELSE results[pair[2]].completed_at]

\* the analysis column never decoded
ParseAnalysisNever(a) == Null

\* h.analysis ? JSON.parse(h.analysis) : null
ParseAnalysis(a) ==
    IF a = Null \/ a.v = <<>> THEN Null
    ELSE IF a.v[1].k = "null" THEN Null
    ELSE Obj(JSONParse(a.v).val)

\* does JSON.parse throw on the row's questions or analysis
RowMalformed(h) ==
    \/ ~JSONParse(h.questions).ok
    \/ h.analysis # Null /\ h.analysis.v # <<>> /\ ~JSONParse(h.analysis.v).ok

\* history.map(h => ({...h, questions: JSON.parse(h.questions), analysis: ...}))
MapRow(h) ==
    [h EXCEPT !.questions = JSONParse(h.questions).val,
              !.analysis = ParseAnalysis(h.analysis)]

MapRows(order) == [i \in 1..Len(order) |-> MapRow(JoinRow(order[i]))]

-----------------------------------------------------------------------------
(* What a JSON body carries over the wire: JSON.stringify on one side,       *)
(* JSON.parse on the other.                                                  *)

WireQuestions(Q) == JSONParse(StringifyQuestions(Q)).val

WireAnalysis(a) ==
    IF a = Undefined \/ a = Null THEN a
    ELSE Obj(JSONParse(StringifyAnalysis(a).v).val)

\* res.json(parsedHistory) on the server, res.json() in the client
WireRows(rows) ==
    [i \in 1..Len(rows) |->
        [rows[i] EXCEPT !.questions = WireQuestions(rows[i].questions),
                        !.analysis = WireAnalysis(rows[i].analysis)]]

-----------------------------------------------------------------------------
(* Facade calls.  A call on the networked path is a fetch: the request       *)
(* travels, one route handler of the server runs to completion (the          *)
(* handlers are synchronous), the response travels, res.json() returns its   *)
(* body.  A call on the embedded path awaits each statement it sends to the  *)
(* local database.                                                           *)

Idle == [h |-> "none", args |-> <<>>, before |-> 0, status |-> 0,
         ret |-> Undefined, err |-> "none", pc |-> "idle"]

InFlight(p) == procs[p].pc \in {"request", "response", "query", "run"}

NoneInFlight == \A p \in Slots : ~InFlight(p)

\* the first await of an operation on the embedded path
FirstLocalStep(h) == IF h \in {"login", "getHistory"} THEN "query" ELSE "run"

\* a call that takes the networked path whatever the platform
BeginOnNetwork(p, h, args) ==
    /\ ~InFlight(p)
    /\ procs' = [procs EXCEPT ![p] =
            [h |-> h, args |-> args, before |-> Len(students),
             status |-> 0, ret |-> Undefined, err |-> "none", pc |-> "request"]]
    /\ UNCHANGED <<storeVars, ghostVars>>

\* a call begins: this.db is still null before init() has opened it, and the
\* embedded path then throws at this.db!
Begin(p, h, args) ==
    /\ ~InFlight(p)
    /\ procs' = [procs EXCEPT ![p] =
            [h |-> h, args |-> args, before |-> Len(students),
             status |-> 0, ret |-> Undefined,
             err |-> IF isMobile /\ db = "null" THEN "TypeError" ELSE "none",
             pc |-> IF ~isMobile THEN "request"
                    ELSE IF db = "null" THEN "threw"
                    ELSE FirstLocalStep(h)]]
    /\ UNCHANGED <<storeVars, ghostVars>>

\* the error a failing statement raises: a rejected row, else an I/O error
SqlError(rejected) == IF rejected THEN "SQLITE_CONSTRAINT" ELSE "SQLITE_IOERR"

\* the call's promise rejects with err; nothing is returned
Throw(p, err) ==
    procs' = [procs EXCEPT ![p].pc = "threw", ![p].err = err, ![p].ret = Undefined,
                           ![p].args = <<>>, ![p].before = 0, ![p].status = 0]

\* the call's promise resolves with ret; the logs note the calls that
\* returned an id
Return(p, ret, status, rowsAfter) ==
    LET c == procs[p]
        hasId == c.h # "getHistory" /\ IsNum(Prop(ret, "id"))
    IN  /\ procs' = [procs EXCEPT ![p].pc = "returned", ![p].ret = ret,
                                  ![p].status = status]
        /\ loginLog' = IF c.h = "login" /\ hasId
                       THEN loginLog \cup {[name |-> c.args.name,
                                age |-> c.args.age, className |-> c.args.className,
                                id |-> ret.id.v, added |-> rowsAfter - c.before]}
                       ELSE loginLog
        /\ testLog' = IF c.h = "saveTest" /\ hasId
                      THEN testLog \cup {[studentId |-> c.args.studentId,
                                topic |-> c.args.topic, questions |-> c.args.questions,
                                id |-> ret.id.v]}
                      ELSE testLog
        /\ resultLog' = IF c.h = "saveResult" /\ hasId
                        THEN resultLog \cup {[testId |-> c.args.testId,
                                score |-> c.args.score, feedback |-> c.args.feedback,
                                analysis |-> c.args.analysis, id |-> ret.id.v]}
                        ELSE resultLog

\* the route handler answers: res.json(body), or res.status(500).json(body)
\* from its catch block, where err is the error caught (and logged)
Respond(p, status, body, err) ==
    procs' = [procs EXCEPT ![p].pc = "response", ![p].status = status,
                           ![p].ret = body, ![p].err = err]

\* a student row as the JavaScript object the caller gets
StudentObject(row) ==
    [id |-> Num(row.id), name |-> row.name, age |-> row.age, class |-> row.class]

\* dataService.login(name, age, className)
StartLogin(p, t) ==
    Begin(p, "login", [name |-> t.name, age |-> t.age, className |-> t.className])

\* dataService.saveTest(studentId, topic, complexity, concepts, questions)
StartSaveTest(p, studentId, topic, Q) ==
    Begin(p, "saveTest", [studentId |-> studentId, topic |-> topic,
                          complexity |-> "Easy", concepts |-> "", questions |-> Q])

\* dataService.getHistory(studentId)
StartGetHistory(p, studentId) ==
    Begin(p, "getHistory", [studentId |-> studentId])

\* dataService.saveResult(testId, answers, score, feedback, analysis)
StartSaveResult(p, testId, answers, score, feedback, analysis) ==
    Begin(p, "saveResult", [testId |-> testId, answers |-> answers, score |-> score,
                            feedback |-> feedback, analysis |-> analysis])

\* a login that skips its existence check
ExistingStudentsUnchecked(name, age, className) == <<>>

\* the existence check of login: the rows the SELECT returns
ExistingStudents(name, age, className) == SelectStudents(name, age, className)

\* app.post("/api/login"): the SELECT and the INSERT of one request run in
\* one synchronous handler
ServerLogin(p, fail) ==
    LET a == procs[p].args
        found == ExistingStudents(a.name, a.age, a.className)
    IN  /\ ~isMobile /\ procs[p].pc = "request" /\ procs[p].h = "login"
        /\ IF fail \/ (found = <<>> /\ StudentRejected(a.name, a.age, a.className))
           THEN /\ Respond(p, 500, [error |-> "Failed to login"], SqlError(~fail))
                /\ UNCHANGED students
           ELSE IF found # <<>>
           THEN /\ Respond(p, 200, StudentObject(found[1]), "none")
                /\ UNCHANGED students
           ELSE /\ students' = Append(students, NewStudent(a.name, a.age, a.className))
                /\ Respond(p, 200, StudentObject(NewStudent(a.name, a.age, a.className)),
                           "none")
        /\ UNCHANGED <<isMobile, db, initPc, tests, results, now, ghostVars>>

\* app.post("/api/tests")
ServerTests(p, fail) ==
    LET a == procs[p].args
        row == NewTest(a.studentId, a.topic, a.complexity, a.concepts,
                       StringifyQuestions(WireQuestions(a.questions)))
    IN  /\ ~isMobile /\ procs[p].pc = "request" /\ procs[p].h = "saveTest"
        /\ IF fail \/ TestRejected(a.studentId)
           THEN /\ Respond(p, 500, [error |-> "Failed to save test"], SqlError(~fail))
                /\ UNCHANGED tests
           ELSE /\ tests' = Append(tests, row)
                /\ Respond(p, 200, [id |-> Num(row.id)], "none")
        /\ UNCHANGED <<isMobile, db, initPc, students, results, now, ghostVars>>

\* app.get("/api/students/:id/history")
ServerHistory(p, fail, order) ==
    LET rows == [i \in 1..Len(order) |-> JoinRow(order[i])]
    IN  /\ ~isMobile /\ procs[p].pc = "request" /\ procs[p].h = "getHistory"
        /\ order \in HistoryOrders(procs[p].args.studentId)
        /\ IF fail \/ \E i \in 1..Len(rows) : RowMalformed(rows[i])
           THEN Respond(p, 500, [error |-> "Failed to fetch history"],
                        IF fail THEN "SQLITE_IOERR" ELSE "SyntaxError")
           ELSE Respond(p, 200, MapRows(order), "none")
        /\ UNCHANGED <<storeVars, ghostVars>>

\* app.post("/api/results")
ServerResults(p, fail) ==
    LET a == procs[p].args
        row == NewResult(a.testId, Text(StringifyAnswers(a.answers)), a.score,
                         a.feedback, StringifyAnalysis(WireAnalysis(a.analysis)))
    IN  /\ ~isMobile /\ procs[p].pc = "request" /\ procs[p].h = "saveResult"
        /\ IF fail \/ ResultRejected(a.testId, Text(StringifyAnswers(a.answers)))
           THEN /\ Respond(p, 500, [error |-> "Failed to save results"], SqlError(~fail))
                /\ UNCHANGED results
           ELSE /\ results' = Append(results, row)
                /\ Respond(p, 200, [id |-> Num(row.id)], "none")
        /\ UNCHANGED <<isMobile, db, initPc, students, tests, now, ghostVars>>

\* return res.json(): the body is what the call returns, whatever the status
ClientReceive(p) ==
    /\ procs[p].pc = "response"
    /\ Return(p, IF procs[p].h = "getHistory" /\ procs[p].status = 200
                 THEN WireRows(procs[p].ret) ELSE procs[p].ret,
              procs[p].status, Len(students))
    /\ UNCHANGED storeVars

\* the request or the response is lost: fetch (or res.json()) rejects
NetworkFail(p) ==
    /\ procs[p].pc \in {"request", "response"}
    /\ Throw(p, "NetworkError")
    /\ UNCHANGED <<storeVars, ghostVars>>

\* login on the embedded path, first await: the SELECT
LocalLoginQuery(p, fail) ==
    LET a == procs[p].args
        found == ExistingStudents(a.name, a.age, a.className)
    IN  /\ isMobile /\ procs[p].pc = "query" /\ procs[p].h = "login"
        /\ IF fail THEN Throw(p, "SQLITE_IOERR") /\ UNCHANGED ghostVars
           ELSE IF found # <<>>
           THEN Return(p, StudentObject(found[1]), 200, Len(students))
           ELSE procs' = [procs EXCEPT ![p].pc = "run"] /\ UNCHANGED ghostVars
        /\ UNCHANGED storeVars

\* login on the embedded path, second await: the INSERT
LocalLoginRun(p, fail) ==
    LET a == procs[p].args
        row == NewStudent(a.name, a.age, a.className)
    IN  /\ isMobile /\ procs[p].pc = "run" /\ procs[p].h = "login"
        /\ IF fail \/ StudentRejected(a.name, a.age, a.className)
           THEN Throw(p, SqlError(~fail)) /\ UNCHANGED <<students, ghostVars>>
           ELSE /\ students' = Append(students, row)
                /\ Return(p, StudentObject(row), 200, Len(students) + 1)
               
        /\ UNCHANGED <<isMobile, db, initPc, tests, results, now>>

\* saveTest on the embedded path
LocalSaveTest(p, fail) ==
    LET a == procs[p].args
        row == NewTest(a.studentId, a.topic, a.complexity, a.concepts,
                       StringifyQuestions(a.questions))
    IN  /\ isMobile /\ procs[p].pc = "run" /\ procs[p].h = "saveTest"
        /\ IF fail \/ TestRejected(a.studentId)
           THEN Throw(p, SqlError(~fail)) /\ UNCHANGED <<tests, ghostVars>>
           ELSE /\ tests' = Append(tests, row)
                /\ Return(p, [id |-> Num(row.id)], 200, Len(students))
               
        /\ UNCHANGED <<isMobile, db, initPc, students, results, now>>

\* getHistory on the embedded path
LocalGetHistory(p, fail, order) ==
    LET rows == [i \in 1..Len(order) |-> JoinRow(order[i])]
    IN  /\ isMobile /\ procs[p].pc = "query" /\ procs[p].h = "getHistory"
        /\ order \in HistoryOrders(procs[p].args.studentId)
        /\ IF fail \/ \E i \in 1..Len(rows) : RowMalformed(rows[i])
           THEN Throw(p, IF fail THEN "SQLITE_IOERR" ELSE "SyntaxError") /\ UNCHANGED ghostVars
           ELSE Return(p, MapRows(order), 200, Len(students))
        /\ UNCHANGED storeVars

\* saveResult on the embedded path
LocalSaveResult(p, fail) ==
    LET a == procs[p].args
        row == NewResult(a.testId, Text(StringifyAnswers(a.answers)), a.score,
                         a.feedback, StringifyAnalysis(a.analysis))
    IN  /\ isMobile /\ procs[p].pc = "run" /\ procs[p].h = "saveResult"
        /\ IF fail \/ ResultRejected(a.testId, Text(StringifyAnswers(a.answers)))
           THEN Throw(p, SqlError(~fail)) /\ UNCHANGED <<results, ghostVars>>
           ELSE /\ results' = Append(results, row)
                /\ Return(p, [id |-> Num(row.id)], 200, Len(students))
               
        /\ UNCHANGED <<isMobile, db, initPc, students, tests, now>>

\* dataService.init() on the embedded path opens the connection and creates
\* the tables
DataInit ==
    /\ isMobile /\ db = "null" /\ initPc = "start"
    /\ db' = "open" /\ initPc' = "done"
    /\ UNCHANGED <<isMobile, students, tests, results, now, procs, ghostVars, appVars>>

\* init() is called: on the networked path it returns at once
InitCall ==
    /\ initPc = "start"
    /\ initPc' = IF isMobile THEN "create" ELSE "returned"
    /\ UNCHANGED <<isMobile, db, students, tests, results, now, procs, ghostVars,
                   appVars>>

\* one awaited step of init(): this.sqlite.createConnection(...) at "create",
\* this.db.open() at "open", this.db.execute(CREATE TABLE ...) at "execute".
\* A step that fails lands in the catch block of init(), which logs the
\* error and lets init() return normally
InitStep(fail) ==
    /\ initPc \in {"create", "open", "execute"}
    /\ IF fail THEN initPc' = "returned" /\ UNCHANGED db
       ELSE IF initPc = "create" THEN initPc' = "open" /\ db' = "closed"
       ELSE IF initPc = "open" THEN initPc' = "execute" /\ db' = "empty"
       ELSE initPc' = "returned" /\ db' = "open"
    /\ UNCHANGED <<isMobile, students, tests, results, now, procs, ghostVars, appVars>>

\* initData of App after await dataService.init(): its catch block sets
\* initError when init() has rejected
InitDataEnd ==
    /\ initPc \in {"returned", "rejected"}
    /\ initPc' = "done"
    /\ initError' = IF initPc = "rejected" THEN Str("Database initialization failed")
                    ELSE initError
    /\ UNCHANGED <<storeVars_noInit, procs, ghostVars, student, view, history, loading,
                   currentTest, studentAnswers, handler, ai, effectPending>>

\* CURRENT_TIMESTAMP moves on
Tick ==
    /\ now < MaxClock
    /\ now' = now + 1
    /\ UNCHANGED <<isMobile, db, initPc, students, tests, results, procs, ghostVars, appVars>>

-----------------------------------------------------------------------------
(* The controller (App) at rest.                                             *)

\* no event handler is suspended; failed notes, for the properties, that a
\* call the handler awaited has failed
NoHandler == [name |-> "none", pc |-> "idle", topic |-> "", questions |-> <<>>,
              result |-> <<>>, failed |-> FALSE]

\* no request to the generative service is pending
NoRequest == [fn |-> "none", pc |-> "idle", ret |-> <<>>]

Init ==
    /\ isMobile \in BOOLEAN
    /\ db = "null" /\ initPc = "start"
    /\ students = <<>> /\ tests = <<>> /\ results = <<>>
    /\ now = 0
    /\ procs = [p \in Slots |-> Idle]
    /\ loginLog = {} /\ testLog = {} /\ resultLog = {}
    /\ student = Null /\ view = "login" /\ history = Arr(<<>>)
    /\ loading = FALSE /\ currentTest = Null /\ studentAnswers = <<>>
    /\ handler = NoHandler /\ ai = NoRequest /\ effectPending = FALSE
    /\ initError = Null

\* the steps of the calls in flight; a statement sent to a connection that
\* is not open, or that lacks the tables, fails
StepServerLogin ==
    \E p \in Slots, fail \in BOOLEAN : ServerLogin(p, fail) /\ UNCHANGED appVars
StepServerTests ==
    \E p \in Slots, fail \in BOOLEAN : ServerTests(p, fail) /\ UNCHANGED appVars
StepServerResults ==
    \E p \in Slots, fail \in BOOLEAN : ServerResults(p, fail) /\ UNCHANGED appVars
StepServerHistory ==
    \E p \in Slots, fail \in BOOLEAN :
        /\ procs[p].h = "getHistory" /\ InFlight(p)
        /\ \E order \in HistoryOrders(procs[p].args.studentId) : ServerHistory(p, fail, order)
        /\ UNCHANGED appVars
StepLocalLoginQuery ==
    \E p \in Slots, fail \in BOOLEAN :
        (db # "open" => fail) /\ LocalLoginQuery(p, fail) /\ UNCHANGED appVars
StepLocalLoginRun ==
    \E p \in Slots, fail \in BOOLEAN :
        (db # "open" => fail) /\ LocalLoginRun(p, fail) /\ UNCHANGED appVars
StepLocalSaveTest ==
    \E p \in Slots, fail \in BOOLEAN :
        (db # "open" => fail) /\ LocalSaveTest(p, fail) /\ UNCHANGED appVars
StepLocalSaveResult ==
    \E p \in Slots, fail \in BOOLEAN :
        (db # "open" => fail) /\ LocalSaveResult(p, fail) /\ UNCHANGED appVars
StepLocalGetHistory ==
    \E p \in Slots, fail \in BOOLEAN :
        /\ procs[p].h = "getHistory" /\ InFlight(p)
        /\ db # "open" => fail
        /\ \E order \in HistoryOrders(procs[p].args.studentId) : LocalGetHistory(p, fail, order)
        /\ UNCHANGED appVars
StepClientReceive == \E p \in Slots : ClientReceive(p) /\ UNCHANGED appVars
StepNetworkFail == \E p \in Slots : NetworkFail(p) /\ UNCHANGED appVars

\* one caller issuing the operations one after the other
IssueLogin(triples, maxRows) ==
    \E t \in triples :
        NoneInFlight /\ Len(students) < maxRows /\ StartLogin(1, t) /\ UNCHANGED appVars
IssueSaveTest(seqs, maxRows) ==
    \E id \in IdArgs, topic \in Topics, Q \in seqs :
        /\ NoneInFlight /\ Len(tests) < maxRows /\ StartSaveTest(1, id, topic, Q)
        /\ UNCHANGED appVars
IssueGetHistory ==
    \E id \in IdArgs : NoneInFlight /\ StartGetHistory(1, id) /\ UNCHANGED appVars
IssueSaveResult ==
    \E id \in IdArgs, score \in Scores, fb \in Feedbacks, an \in Analyses :
        /\ NoneInFlight /\ Len(results) < MaxResults /\ StartSaveResult(1, id, Answers, score, fb, an)
        /\ UNCHANGED appVars

\* callers issuing logins that overlap
IssueConcurrentLogin ==
    \E p \in Slots, t \in SomeTriples :
        Len(students) < MaxStudents /\ StartLogin(p, t) /\ UNCHANGED appVars

\* sequential calls of the four operations
Next ==
    \/ DataInit
    \/ IssueLogin(SomeTriples, MaxStudents)
    \/ IssueSaveTest(QuestionSeqs, MaxTests)
    \/ IssueGetHistory
    \/ IssueSaveResult
    \/ StepServerLogin \/ StepServerTests \/ StepServerHistory \/ StepServerResults
    \/ StepLocalLoginQuery \/ StepLocalLoginRun \/ StepLocalSaveTest
    \/ StepLocalGetHistory \/ StepLocalSaveResult
    \/ StepClientReceive \/ StepNetworkFail

Spec == Init /\ [][Next]_vars

\* sequential saveTest and getHistory calls while the storage clock advances
\* (the clock is read by the INSERT alone, so it ticks between the calls)
NextOrder ==
    \/ DataInit
    \/ NoneInFlight /\ Tick
    \/ IssueLogin(SomeTriples, MaxStudents)
    \/ IssueSaveTest({<<QPlain>>}, MaxOrderTests)
    \/ IssueGetHistory
    \/ StepServerLogin \/ StepServerTests \/ StepServerHistory
    \/ StepLocalLoginQuery \/ StepLocalLoginRun \/ StepLocalSaveTest
    \/ StepLocalGetHistory
    \/ StepClientReceive \/ StepNetworkFail

SpecOrder == Init /\ [][NextOrder]_vars

\* sequential logins
NextLogin ==
    \/ DataInit
    \/ IssueLogin(Triples, MaxLoginRows)
    \/ StepServerLogin
    \/ StepLocalLoginQuery \/ StepLocalLoginRun
    \/ StepClientReceive \/ StepNetworkFail

SpecLogin == Init /\ [][NextLogin]_vars

\* logins that overlap
NextConc ==
    \/ DataInit
    \/ IssueConcurrentLogin
    \/ StepServerLogin
    \/ StepLocalLoginQuery \/ StepLocalLoginRun
    \/ StepClientReceive \/ StepNetworkFail

SpecConc == Init /\ [][NextConc]_vars

-----------------------------------------------------------------------------
(* The generative service behind generateQuestions and evaluateAnswers.      *)

\* the texts the service may answer generateQuestions with: none, a question
\* array, a text cut short
QuestionTexts == { <<>>, StringifyQuestions(<<QPlain>>), P("[") }

\* the texts the service may answer evaluateAnswers with: none, an
\* evaluation (with a score of the range or beyond it), a text cut short
EvaluationTexts ==
    { <<>>, P("{") } \cup
    { P("{") \o StrLit("score") \o P(":") \o NumLit(n) \o P(",")
             \o StrLit("feedback") \o P(":") \o StrLit("Keep going") \o P(",")
             \o StrLit("analysis") \o P(":") \o StringifyAnalysis(an).v \o P("}")
        : an \in Analyses, n \in {9, 150} }

\* return JSON.parse(response.text || "[]")
GenerateQuestions(text) == JSONParse(IF text = <<>> THEN P("[") \o P("]") ELSE text)

\* return JSON.parse(response.text || "{}")
EvaluateAnswers(text) == JSONParse(IF text = <<>> THEN P("{") \o P("}") ELSE text)

\* result.score, result.feedback, result.analysis of a parsed evaluation
JsNum(o, f) == IF f \in DOMAIN o THEN Num(o[f]) ELSE Undefined
JsStr(o, f) == IF f \in DOMAIN o THEN Str(o[f]) ELSE Undefined
JsObj(o, f) == IF f \in DOMAIN o THEN Obj(o[f]) ELSE Undefined

\* the service answers the pending request with a text, or the request is
\* lost; text that does not parse makes JSON.parse throw
GeminiAnswers(text, lost) ==
    LET r == IF ai.fn = "generateQuestions" THEN GenerateQuestions(text)
             ELSE EvaluateAnswers(text)
    IN  /\ ai.pc = "pending"
        /\ text \in (IF ai.fn = "generateQuestions" THEN QuestionTexts
                     ELSE EvaluationTexts)
        /\ ai' = IF lost \/ ~r.ok THEN [ai EXCEPT !.pc = "rejected"]
                 ELSE [ai EXCEPT !.pc = "resolved", !.ret = r.val]
        /\ UNCHANGED <<initError, storeVars, procs, ghostVars, student, view, history, loading,
                       currentTest, studentAnswers, handler, effectPending>>

-----------------------------------------------------------------------------
(* The controller: the App component.  An event handler runs up to its next  *)
(* await in one step and resumes when the awaited call has ended.  While     *)
(* loading is set the overlay covers the page and the submit buttons are     *)
(* disabled; a render that throws (history.filter on a value that is no      *)
(* array) leaves no page to act on.                                          *)

HandlerSlot == 1   \* the slot of the Facade call an event handler awaits
EffectSlot == 2    \* the slot of the getHistory the [student] effect starts

MaxAppTests == 1   \* tests the page generates

\* what the login form is filled with, what is typed as an answer
AppTriples == { t \in SomeTriples : t.name = "Ann" }
AnswerTexts == {"4"}

\* a handler that goes on as soon as the call is issued, without the await
CallEndedOrRunning(p) == procs[p].pc # "idle"

\* the call in slot p has ended: its promise is resolved or rejected
CallEnded(p) == procs[p].pc \in {"returned", "threw"}

\* the page is there and takes an event
UiReady ==
    /\ ~loading /\ ~effectPending /\ handler = NoHandler /\ IsArray(history)
    /\ initPc # "start" /\ initError = Null

\* data of fetchHistory: whatever getHistory resolved with
HistoryData(p) == IF procs[p].status = 200 THEN Arr(procs[p].ret) ELSE procs[p].ret

\* newTest of handleGenerateTest
ClientTest(id) ==
    [id |-> id, student_id |-> Prop(student, "id"), topic |-> handler.topic,
     complexity |-> "Easy", concepts |-> "", questions |-> handler.questions,
     created_at |-> Str("toISOString")]

\* handleLogin up to its await
HandleLogin(t) ==
    /\ UiReady /\ view = "login"
    /\ procs[EffectSlot].pc = "idle"
    /\ StartLogin(HandlerSlot, t)
    /\ loading' = TRUE
    /\ handler' = [NoHandler EXCEPT !.name = "handleLogin", !.pc = "login"]
    /\ UNCHANGED <<initError, student, view, history, currentTest, studentAnswers, ai,
                   effectPending>>

\* handleLogin after dataService.login: setStudent(data), setView('dashboard'),
\* or the catch block; then finally
HandleLoginResume ==
    /\ handler.name = "handleLogin" /\ CallEnded(HandlerSlot)
    /\ IF procs[HandlerSlot].pc = "returned"
       THEN /\ student' = procs[HandlerSlot].ret
            /\ view' = "dashboard"
            /\ effectPending' = TRUE
       ELSE UNCHANGED <<student, view, effectPending>>
    /\ loading' = FALSE
    /\ handler' = NoHandler
    /\ procs' = [procs EXCEPT ![HandlerSlot] = Idle]
    /\ UNCHANGED <<initError, storeVars, ghostVars, history, currentTest, studentAnswers, ai>>

\* useEffect(..., [student]): if (student) fetchHistory()
StudentEffect ==
    /\ effectPending
    /\ effectPending' = FALSE
    /\ IF student # Null
       THEN StartGetHistory(EffectSlot, Prop(student, "id"))
       ELSE UNCHANGED <<storeVars, procs, ghostVars>>
    /\ UNCHANGED <<initError, student, view, history, loading, currentTest, studentAnswers,
                   handler, ai>>

\* fetchHistory after dataService.getHistory: setHistory(data), or the catch
FetchHistoryEnd ==
    /\ procs[EffectSlot].h = "getHistory" /\ CallEnded(EffectSlot)
    /\ history' = IF procs[EffectSlot].pc = "returned" THEN HistoryData(EffectSlot)
                  ELSE history
    /\ procs' = [procs EXCEPT ![EffectSlot] = Idle]
    /\ UNCHANGED <<initError, storeVars, ghostVars, student, view, loading, currentTest,
                   studentAnswers, handler, ai, effectPending>>

\* the logout button: setStudent(null); setView('login')
Logout ==
    /\ UiReady /\ student # Null
    /\ student' = Null /\ view' = "login" /\ effectPending' = TRUE
    /\ UNCHANGED <<initError, storeVars, procs, ghostVars, history, loading, currentTest,
                   studentAnswers, handler, ai>>

\* setView(v) from a button that changes nothing else
SetView(v) ==
    /\ view' = v
    /\ UNCHANGED <<initError, storeVars, procs, ghostVars, student, history, loading,
                   currentTest, studentAnswers, handler, ai, effectPending>>

\* the navigation bar (shown while student is set) and the Back buttons
NavDashboard == UiReady /\ student # Null /\ view # "dashboard" /\ SetView("dashboard")
NavGenerate == UiReady /\ student # Null /\ view # "generate" /\ SetView("generate")
NavHistory == UiReady /\ student # Null /\ view # "history" /\ SetView("history")
NavIcons ==
    UiReady /\ (student # Null \/ view = "login") /\ view # "icons" /\ SetView("icons")
IconsBack == UiReady /\ view = "icons" /\ student = Null /\ SetView("login")

\* Enter Answers on a test of the dashboard (the first three of the history)
\* or of the history view, shown for a test whose score is null
OpenTest(k) ==
    /\ UiReady /\ student # Null
    /\ \/ view = "dashboard" /\ k <= 3
       \/ view = "history"
    /\ k \in 1..Len(history.v) /\ history.v[k].score = Null
    /\ currentTest' = history.v[k] /\ view' = "enter-answers"
    /\ UNCHANGED <<initError, storeVars, procs, ghostVars, student, history, loading,
                   studentAnswers, handler, ai, effectPending>>

\* the print button of the history view
ShowTest(k) ==
    /\ UiReady /\ student # Null /\ view = "history"
    /\ k \in 1..Len(history.v)
    /\ currentTest' = history.v[k] /\ view' = "test-view"
    /\ UNCHANGED <<initError, storeVars, procs, ghostVars, student, history, loading,
                   studentAnswers, handler, ai, effectPending>>

\* Enter Answers of the test view
BeginAnswering ==
    UiReady /\ view = "test-view" /\ currentTest # Null /\ SetView("enter-answers")

\* typing an answer: setStudentAnswers({...studentAnswers, [q.id]: value})
TypeAnswer(i, text) ==
    /\ UiReady /\ view = "enter-answers" /\ currentTest # Null
    /\ i \in 1..Len(currentTest.questions)
    /\ studentAnswers' = (currentTest.questions[i].id :> text) @@ studentAnswers
    /\ UNCHANGED <<initError, storeVars, procs, ghostVars, student, view, history, loading,
                   currentTest, handler, ai, effectPending>>

\* handleGenerateTest up to its first await (maxRows bounds the tests table)
HandleGenerateTestUpTo(topic, maxRows) ==
    /\ UiReady /\ view = "generate" /\ student # Null
    /\ Len(tests) < maxRows
    /\ loading' = TRUE
    /\ ai' = [fn |-> "generateQuestions", pc |-> "pending", ret |-> <<>>]
    /\ handler' = [NoHandler EXCEPT !.name = "handleGenerateTest", !.pc = "generate",
                                    !.topic = topic]
    /\ UNCHANGED <<initError, storeVars, procs, ghostVars, student, view, history, currentTest,
                   studentAnswers, effectPending>>

HandleGenerateTest(topic) == HandleGenerateTestUpTo(topic, MaxAppTests)

\* handleGenerateTest after generateQuestions: dataService.saveTest(...), or
\* the catch block
HandleGenerateTestSave ==
    /\ handler.name = "handleGenerateTest" /\ handler.pc = "generate"
    /\ ai.pc \in {"resolved", "rejected"}
    /\ IF ai.pc = "resolved"
       THEN /\ StartSaveTest(HandlerSlot, Prop(student, "id"), handler.topic, ai.ret)
            /\ handler' = [handler EXCEPT !.pc = "saveTest", !.questions = ai.ret]
            /\ UNCHANGED loading
       ELSE /\ loading' = FALSE /\ handler' = NoHandler
            /\ UNCHANGED <<storeVars, procs, ghostVars>>
    /\ ai' = NoRequest
    /\ UNCHANGED <<initError, student, view, history, currentTest, studentAnswers, effectPending>>

\* handleGenerateTest after saveTest: const { id } = ..., setCurrentTest(newTest),
\* setView('test-view'), or the catch block; then finally
HandleGenerateTestEnd ==
    /\ handler.name = "handleGenerateTest" /\ handler.pc = "saveTest"
    /\ CallEnded(HandlerSlot)
    /\ IF procs[HandlerSlot].pc = "returned"
       THEN /\ currentTest' = ClientTest(Prop(procs[HandlerSlot].ret, "id"))
            /\ view' = "test-view"
       ELSE UNCHANGED <<currentTest, view>>
    /\ loading' = FALSE
    /\ handler' = NoHandler
    /\ procs' = [procs EXCEPT ![HandlerSlot] = Idle]
    /\ UNCHANGED <<initError, storeVars, ghostVars, student, history, studentAnswers, ai,
                   effectPending>>

\* handleSubmitAnswers up to its first await (maxRows bounds the results
\* table)
HandleSubmitAnswersUpTo(maxRows) ==
    /\ UiReady /\ view = "enter-answers" /\ currentTest # Null /\ student # Null
    /\ Len(results) < maxRows
    /\ loading' = TRUE
    /\ ai' = [fn |-> "evaluateAnswers", pc |-> "pending", ret |-> <<>>]
    /\ handler' = [NoHandler EXCEPT !.name = "handleSubmitAnswers", !.pc = "evaluate"]
    /\ UNCHANGED <<initError, storeVars, procs, ghostVars, student, view, history, currentTest,
                   studentAnswers, effectPending>>

HandleSubmitAnswers == HandleSubmitAnswersUpTo(MaxResults)

\* handleSubmitAnswers after evaluateAnswers: dataService.saveResult(...), or
\* the catch block
HandleSubmitAnswersSave ==
    /\ handler.name = "handleSubmitAnswers" /\ handler.pc = "evaluate"
    /\ ai.pc \in {"resolved", "rejected"}
    /\ IF ai.pc = "resolved"
       THEN /\ StartSaveResult(HandlerSlot, Prop(currentTest, "id"), studentAnswers,
                               JsNum(ai.ret, "score"), JsStr(ai.ret, "feedback"),
                               JsObj(ai.ret, "analysis"))
            /\ handler' = [handler EXCEPT !.pc = "saveResult", !.result = ai.ret]
            /\ UNCHANGED loading
       ELSE /\ loading' = FALSE /\ handler' = NoHandler
            /\ UNCHANGED <<storeVars, procs, ghostVars>>
    /\ ai' = NoRequest
    /\ UNCHANGED <<initError, student, view, history, currentTest, studentAnswers, effectPending>>

\* handleSubmitAnswers after saveResult, whose value it drops: await
\* fetchHistory(), or the catch block
HandleSubmitAnswersRefresh ==
    /\ handler.name = "handleSubmitAnswers" /\ handler.pc = "saveResult"
    /\ CallEnded(HandlerSlot)
    /\ IF procs[HandlerSlot].pc = "returned"
       THEN /\ StartGetHistory(HandlerSlot, Prop(student, "id"))
            /\ handler' = [handler EXCEPT !.pc = "fetchHistory",
                                          !.failed = procs[HandlerSlot].status # 200]
            /\ UNCHANGED loading
       ELSE /\ loading' = FALSE /\ handler' = NoHandler
            /\ procs' = [procs EXCEPT ![HandlerSlot] = Idle]
            /\ UNCHANGED <<storeVars, ghostVars>>
    /\ UNCHANGED <<initError, student, view, history, currentTest, studentAnswers, ai,
                   effectPending>>

\* handleSubmitAnswers after fetchHistory (which catches its own failure):
\* setView('dashboard'), setStudentAnswers({}), setCurrentTest(null); finally
HandleSubmitAnswersEnd ==
    /\ handler.name = "handleSubmitAnswers" /\ handler.pc = "fetchHistory"
    /\ CallEnded(HandlerSlot)
    /\ history' = IF procs[HandlerSlot].pc = "returned" THEN HistoryData(HandlerSlot)
                  ELSE history
    /\ view' = "dashboard" /\ studentAnswers' = <<>> /\ currentTest' = Null
    /\ loading' = FALSE
    /\ handler' = NoHandler
    /\ procs' = [procs EXCEPT ![HandlerSlot] = Idle]
    /\ UNCHANGED <<initError, storeVars, ghostVars, student, ai, effectPending>>

\* the events of the page
StepInit == \E fail \in BOOLEAN : InitStep(fail)
StepLogin == \E t \in AppTriples : HandleLogin(t)
StepGenerate == \E topic \in Topics : HandleGenerateTest(topic)
StepOpenTest == \E k \in 1..MaxAppTests : OpenTest(k)
StepShowTest == \E k \in 1..MaxAppTests : ShowTest(k)
StepTypeAnswer ==
    /\ currentTest # Null
    /\ \E i \in 1..Len(currentTest.questions), text \in AnswerTexts : TypeAnswer(i, text)
StepGemini ==
    \E text \in QuestionTexts \cup EvaluationTexts, lost \in BOOLEAN :
        GeminiAnswers(text, lost)

\* the application: the page, its handlers, the Facade calls they make
NextApp ==
    \/ InitCall \/ StepInit \/ InitDataEnd
    \/ StepLogin \/ HandleLoginResume \/ StudentEffect \/ FetchHistoryEnd
    \/ Logout \/ NavDashboard \/ NavGenerate \/ NavHistory \/ NavIcons \/ IconsBack
    \/ StepOpenTest \/ StepShowTest \/ BeginAnswering \/ StepTypeAnswer
    \/ StepGenerate \/ HandleGenerateTestSave \/ HandleGenerateTestEnd
    \/ HandleSubmitAnswers \/ HandleSubmitAnswersSave
    \/ HandleSubmitAnswersRefresh \/ HandleSubmitAnswersEnd
    \/ StepGemini
    \/ StepServerLogin \/ StepServerTests \/ StepServerHistory \/ StepServerResults
    \/ StepLocalLoginQuery \/ StepLocalLoginRun \/ StepLocalSaveTest
    \/ StepLocalGetHistory \/ StepLocalSaveResult
    \/ StepClientReceive \/ StepNetworkFail

SpecApp == Init /\ [][NextApp]_vars

\* the application in a session where the storage and the model answer every
\* call (a statement fails only on a connection that is not open yet), with
\* room for a second answer sheet
MaxAppResults == 2   \* answer sheets the page submits

NextResubmit ==
    \/ InitCall \/ InitStep(FALSE) \/ InitDataEnd
    \/ StepLogin \/ HandleLoginResume \/ StudentEffect \/ FetchHistoryEnd
    \/ Logout \/ NavDashboard \/ NavGenerate \/ NavHistory \/ NavIcons \/ IconsBack
    \/ StepOpenTest \/ StepShowTest \/ BeginAnswering \/ StepTypeAnswer
    \/ StepGenerate \/ HandleGenerateTestSave \/ HandleGenerateTestEnd
    \/ HandleSubmitAnswersUpTo(MaxAppResults) \/ HandleSubmitAnswersSave
    \/ HandleSubmitAnswersRefresh \/ HandleSubmitAnswersEnd
    \/ \E text \in QuestionTexts \cup EvaluationTexts : GeminiAnswers(text, FALSE)
    \/ \E p \in Slots : ServerLogin(p, FALSE) /\ UNCHANGED appVars
    \/ \E p \in Slots : ServerTests(p, FALSE) /\ UNCHANGED appVars
    \/ \E p \in Slots : ServerResults(p, FALSE) /\ UNCHANGED appVars
    \/ \E p \in Slots :
          /\ procs[p].h = "getHistory" /\ InFlight(p)
          /\ \E order \in HistoryOrders(procs[p].args.studentId) :
                IF isMobile THEN LocalGetHistory(p, db # "open", order)
                ELSE ServerHistory(p, FALSE, order)
          /\ UNCHANGED appVars
    \/ \E p \in Slots : LocalLoginQuery(p, db # "open") /\ UNCHANGED appVars
    \/ \E p \in Slots : LocalLoginRun(p, db # "open") /\ UNCHANGED appVars
    \/ \E p \in Slots : LocalSaveTest(p, db # "open") /\ UNCHANGED appVars
    \/ \E p \in Slots : LocalSaveResult(p, db # "open") /\ UNCHANGED appVars
    \/ StepClientReceive

SpecResubmit == Init /\ [][NextResubmit]_vars

\* the application in a session where the storage and the model answer every
\* call, used by two students in turn
NextSwitch ==
    \/ InitCall \/ InitStep(FALSE) \/ InitDataEnd
    \/ \E t \in SomeTriples : HandleLogin(t)
    \/ HandleLoginResume \/ StudentEffect \/ FetchHistoryEnd
    \/ Logout \/ NavDashboard \/ NavGenerate \/ NavHistory \/ NavIcons \/ IconsBack
    \/ StepOpenTest \/ StepShowTest \/ BeginAnswering \/ StepTypeAnswer
    \/ StepGenerate \/ HandleGenerateTestSave \/ HandleGenerateTestEnd
    \/ HandleSubmitAnswers \/ HandleSubmitAnswersSave
    \/ HandleSubmitAnswersRefresh \/ HandleSubmitAnswersEnd
    \/ \E text \in QuestionTexts \cup EvaluationTexts : GeminiAnswers(text, FALSE)
    \/ \E p \in Slots : ServerLogin(p, FALSE) /\ UNCHANGED appVars
    \/ \E p \in Slots : ServerTests(p, FALSE) /\ UNCHANGED appVars
    \/ \E p \in Slots : ServerResults(p, FALSE) /\ UNCHANGED appVars
    \/ \E p \in Slots :
          /\ procs[p].h = "getHistory" /\ InFlight(p)
          /\ \E order \in HistoryOrders(procs[p].args.studentId) :
                IF isMobile THEN LocalGetHistory(p, db # "open", order)
                ELSE ServerHistory(p, FALSE, order)
          /\ UNCHANGED appVars
    \/ \E p \in Slots : LocalLoginQuery(p, db # "open") /\ UNCHANGED appVars
    \/ \E p \in Slots : LocalLoginRun(p, db # "open") /\ UNCHANGED appVars
    \/ \E p \in Slots : LocalSaveTest(p, db # "open") /\ UNCHANGED appVars
    \/ \E p \in Slots : LocalSaveResult(p, db # "open") /\ UNCHANGED appVars
    \/ StepClientReceive

SpecSwitch == Init /\ [][NextSwitch]_vars

\* the application in a session where the storage and the model answer every
\* call, with two tests; what the student types into the sheet of a test
\* tells the test: SheetAnswers[n] for the test with id n
MaxSheetTests == 2   \* tests the page generates in this session
SheetAnswers == [n \in 1..MaxSheetTests |-> Digits[n + 1]]

NextSheets ==
    \/ InitCall \/ InitStep(FALSE) \/ InitDataEnd
    \/ StepLogin \/ HandleLoginResume \/ StudentEffect \/ FetchHistoryEnd
    \/ NavDashboard \/ NavGenerate \/ NavHistory
    \/ \E k \in 1..MaxSheetTests : OpenTest(k)
    \/ \E k \in 1..MaxSheetTests : ShowTest(k)
    \/ BeginAnswering
    \/ /\ currentTest # Null /\ IsNum(Prop(currentTest, "id"))
       /\ \E i \in 1..Len(currentTest.questions) :
             TypeAnswer(i, SheetAnswers[currentTest.id.v])
    \/ \E topic \in Topics : HandleGenerateTestUpTo(topic, MaxSheetTests)
    \/ HandleGenerateTestSave \/ HandleGenerateTestEnd
    \/ HandleSubmitAnswers \/ HandleSubmitAnswersSave
    \/ HandleSubmitAnswersRefresh \/ HandleSubmitAnswersEnd
    \/ \E text \in QuestionTexts \cup EvaluationTexts : GeminiAnswers(text, FALSE)
    \/ \E p \in Slots : ServerLogin(p, FALSE) /\ UNCHANGED appVars
    \/ \E p \in Slots : ServerTests(p, FALSE) /\ UNCHANGED appVars
    \/ \E p \in Slots : ServerResults(p, FALSE) /\ UNCHANGED appVars
    \/ \E p \in Slots :
          /\ procs[p].h = "getHistory" /\ InFlight(p)
          /\ \E order \in HistoryOrders(procs[p].args.studentId) :
                IF isMobile THEN LocalGetHistory(p, db # "open", order)
                ELSE ServerHistory(p, FALSE, order)
          /\ UNCHANGED appVars
    \/ \E p \in Slots : LocalLoginQuery(p, db # "open") /\ UNCHANGED appVars
    \/ \E p \in Slots : LocalLoginRun(p, db # "open") /\ UNCHANGED appVars
    \/ \E p \in Slots : LocalSaveTest(p, db # "open") /\ UNCHANGED appVars
    \/ \E p \in Slots : LocalSaveResult(p, db # "open") /\ UNCHANGED appVars
    \/ StepClientReceive

SpecSheets == Init /\ [][NextSheets]_vars

\* a button of the navigation bar activated from the keyboard: the bar is
\* rendered while student is set, its buttons have no disabled attribute, and
\* the loading overlay, which covers them for the pointer, does not take the
\* focus away from them
KeyNav(v) ==
    /\ initPc # "start" /\ initError = Null /\ IsArray(history)
    /\ student # Null /\ loading
    /\ view # v /\ SetView(v)

\* the application, with the keyboard next to the pointer
NextKeys ==
    \/ NextApp
    \/ \E v \in {"dashboard", "generate", "history", "icons"} : KeyNav(v)

SpecKeys == Init /\ [][NextKeys]_vars

-----------------------------------------------------------------------------
(* Properties of sequentially issued Facade calls.                           *)

\* the call in slot p was a getHistory and has returned the history rows
GotRows(p) ==
    procs[p].h = "getHistory" /\ procs[p].pc = "returned" /\ procs[p].status = 200

\* the ids of the rows a getHistory returned
RowsOf(p, id) == { k \in 1..Len(procs[p].ret) : procs[p].ret[k].id = Num(id) }

\* C4: once saveTest(s, topic, complexity, concepts, Q) has returned id t, a
\* getHistory(s) issued afterwards that returns the history has a row with
\* id t whose questions equal Q.
C4_SavedQuestionsComeBack ==
    \A p \in Slots : GotRows(p) =>
        \A e \in testLog : e.studentId = procs[p].args.studentId =>
            \E k \in RowsOf(p, e.id) : procs[p].ret[k].questions = e.questions

C4_Witness ==
    \E p \in Slots : /\ GotRows(p) /\ ~isMobile
                     /\ \E e \in testLog : /\ e.studentId = procs[p].args.studentId
                                           /\ e.questions = <<QOptions, QPlain>>

\* the tests of student sid that have no row in results
Unanswered(sid) ==
    { i \in 1..Len(tests) :
        /\ IsNum(sid) /\ tests[i].student_id = sid.v
        /\ ~\E j \in 1..Len(results) : results[j].test_id = tests[i].id }

\* C6: a test of s without a saved result has a row in getHistory(s), and
\* its score, feedback, analysis and completed_at are null.
C6_UnansweredTestsKeptWithNulls ==
    \A p \in Slots : GotRows(p) =>
        \A i \in Unanswered(procs[p].args.studentId) :
            /\ RowsOf(p, tests[i].id) # {}
            /\ \A k \in RowsOf(p, tests[i].id) :
                /\ procs[p].ret[k].score = Null
                /\ procs[p].ret[k].feedback = Null
                /\ procs[p].ret[k].analysis = Null
                /\ procs[p].ret[k].completed_at = Null

\* a history holding an unanswered test next to an answered one
C6_Witness ==
    \E p \in Slots : /\ GotRows(p)
                     /\ Unanswered(procs[p].args.studentId) # {}
                     /\ \E k \in 1..Len(procs[p].ret) : procs[p].ret[k].score # Null

\* the run so far was: one login, one saveTest for that student, one
\* saveResult for that test, each returned, then getHistory of that student
EndToEnd(p) ==
    /\ GotRows(p)
    /\ Len(students) = 1 /\ Len(tests) = 1 /\ Len(results) = 1
    /\ Cardinality(loginLog) = 1 /\ Cardinality(testLog) = 1 /\ Cardinality(resultLog) = 1
    /\ \A l \in loginLog, t \in testLog, r \in resultLog :
        /\ t.studentId = Num(l.id) /\ r.testId = Num(t.id)
        /\ procs[p].args.studentId = Num(l.id)

\* C7: from an empty store, login -> saveTest -> saveResult -> getHistory gives
\* one record with the saved topic, score, feedback, analysis and questions,
\* and the ids the three calls returned are 1.
C7_EndToEndRecord ==
    \A p \in Slots : EndToEnd(p) =>
        \A l \in loginLog, t \in testLog, r \in resultLog :
            /\ l.id = 1 /\ t.id = 1 /\ r.id = 1
            /\ Len(procs[p].ret) = 1
            /\ procs[p].ret[1].id = Num(t.id)
            /\ procs[p].ret[1].topic = t.topic
            /\ procs[p].ret[1].score = r.score
            /\ procs[p].ret[1].feedback = r.feedback
            /\ procs[p].ret[1].analysis = r.analysis
            /\ procs[p].ret[1].questions = t.questions

C7_Witness == \E p \in Slots : EndToEnd(p)

\* the tests student sid owns
TestsOf(sid) == { i \in 1..Len(tests) : IsNum(sid) /\ tests[i].student_id = sid.v }

\* C5: getHistory(s) returns the tests owned by s and no other, each once
\* while it has at most one result, and a test created later comes before a
\* test created earlier.
C5_HistoryOwnedNewestFirst ==
    \A p \in Slots : GotRows(p) =>
        LET rows == procs[p].ret
            sid == procs[p].args.studentId
        IN  /\ \A k \in 1..Len(rows) : rows[k].student_id = sid
            /\ \A i \in TestsOf(sid) : RowsOf(p, tests[i].id) # {}
            /\ Len(rows) = Cardinality(TestsOf(sid))
            /\ \A a, b \in 1..Len(rows) :
                rows[a].created_at.v > rows[b].created_at.v => a < b

\* three tests of one student created at three different times, returned
C5_Witness ==
    \E p \in Slots :
        /\ GotRows(p) /\ Len(procs[p].ret) = 3
        /\ procs[p].ret[1].created_at.v > procs[p].ret[2].created_at.v
        /\ procs[p].ret[2].created_at.v > procs[p].ret[3].created_at.v

\* C28 (as claimed): getHistory returns the tests in reverse insertion order:
\* of any two rows the one with the greater test id comes first, also when
\* the two tests were inserted within one tick of the clock behind created_at.
C28_HistoryInReverseInsertionOrder ==
    \A p \in Slots : GotRows(p) =>
        \A a, b \in 1..Len(procs[p].ret) :
            procs[p].ret[a].id.v > procs[p].ret[b].id.v => a < b

-----------------------------------------------------------------------------
(* Properties of login.                                                      *)

SameTriple(a, b) == a.name = b.name /\ a.age = b.age /\ a.className = b.className

\* C1: logins issued one after the other return the same id for the same
\* (name, age, class) and different ids for different triples, and a triple
\* a login has returned an id for has exactly one row, whose id it is.
C1_LoginIdempotentOnKey ==
    /\ \A a, b \in loginLog : SameTriple(a, b) <=> a.id = b.id
    /\ \A a \in loginLog :
        /\ a.added <= 1
        /\ Len(SelectStudents(a.name, a.age, a.className)) = 1
        /\ SelectStudents(a.name, a.age, a.className)[1].id = a.id

\* the same triple logged in twice (the second time adding no row), then a
\* triple that differs
C1_Witness ==
    \E a, b, c \in loginLog :
        /\ SameTriple(a, b) /\ a.added = 1 /\ b.added = 0
        /\ ~SameTriple(a, c) /\ c.added = 1

\* C2 (as claimed): on the embedded backend no two rows of the students table
\* share a (name, age, class) triple, whatever the interleaving of logins.
C2_NoDuplicateTriplesEmbedded ==
    isMobile =>
        \A i, j \in 1..Len(students) :
            (/\ students[i].name = students[j].name
             /\ students[i].age = students[j].age
             /\ students[i].class = students[j].class) => i = j

\* C3 (as claimed): on the networked backend the existence check and the
\* insert of a login are separate steps: a student row is only ever inserted
\* for a request that had passed its existence check in an earlier step.
C3_CheckAndInsertAreSeparateSteps ==
    [][(~isMobile /\ Len(students') > Len(students)) =>
          \E p \in Slots : procs[p].h = "login" /\ procs[p].pc = "run"]_vars

\* C3 (amended): on the networked backend a login's existence check and
\* insert run in one handler step, so overlapping logins never produce two
\* rows with one triple, never fail on the UNIQUE constraint, and return the
\* same id for the same triple.
C3_ServerLoginAtomic ==
    ~isMobile =>
        /\ \A i, j \in 1..Len(students) :
            (/\ students[i].name = students[j].name
             /\ students[i].age = students[j].age
             /\ students[i].class = students[j].class) => i = j
        /\ \A p \in Slots : procs[p].err # "SQLITE_CONSTRAINT"
        /\ \A a, b \in loginLog : SameTriple(a, b) => a.id = b.id

\* two requests with the same triple in flight together, both answered
C3_Witness ==
    /\ ~isMobile
    /\ \A p \in Slots :
        /\ procs[p].h = "login" /\ procs[p].pc = "response" /\ procs[p].status = 200
        /\ procs[p].ret = procs[1].ret

-----------------------------------------------------------------------------
(* Properties of the controller when a call it awaits fails.                 *)

\* the Facade call in slot p has ended in a failure: its promise rejected, or
\* the server answered with a status other than 200 (an error body)
CallFailed(p) ==
    \/ procs[p].pc = "threw"
    \/ procs[p].pc = "returned" /\ procs[p].status # 200

\* C8 (as claimed): when the login call of handleLogin has failed, on either
\* backend and also with an HTTP 500 answer, the handler ends with student
\* null and the view 'login'.
C8_FailedLoginStaysLoggedOut ==
    [][(/\ handler.name = "handleLogin" /\ handler'.name = "none"
        /\ CallFailed(HandlerSlot))
          => (student' = Null /\ view' = "login")]_vars

\* C9 (as claimed): when the generation call or the saveTest call of
\* handleGenerateTest has failed, on either backend and also with an HTTP 500
\* answer, the handler ends with the student kept, currentTest not set, the
\* view not 'test-view' and no test with an undefined id held.
C9_FailedGenerationStaysAuthenticated ==
    [][(/\ handler.name = "handleGenerateTest" /\ handler'.name = "none"
        /\ (ai.pc = "rejected" \/ CallFailed(HandlerSlot)))
          => (/\ student' = student /\ student' # Null
              /\ currentTest' = currentTest
              /\ view' # "test-view"
              /\ (currentTest' = Null \/ IsNum(Prop(currentTest', "id"))))]_vars

\* C10 (as claimed): when the evaluation call or the saveResult call of
\* handleSubmitAnswers has failed, on either backend and also with an HTTP 500
\* answer, the handler ends with the view 'enter-answers' and with
\* currentTest and the answers typed unchanged.
C10_FailedSubmitKeepsState ==
    [][(/\ handler.name = "handleSubmitAnswers" /\ handler'.name = "none"
        /\ \/ ai.pc = "rejected"
           \/ handler.pc = "saveResult" /\ CallFailed(HandlerSlot)
           \/ handler.failed)
          => (/\ view' = "enter-answers"
              /\ currentTest' = currentTest
              /\ studentAnswers' = studentAnswers)]_vars

-----------------------------------------------------------------------------
(* Properties of the controller's transitions.                               *)

\* C11 (as claimed): when handleSubmitAnswers ends after its evaluation call
\* and its saveResult call have both succeeded, the view is 'dashboard',
\* currentTest is null, the answers are empty, and the history holds the
\* submitted test with the score that was saved.
C11_SubmitRefreshesHistory ==
    [][(/\ handler.name = "handleSubmitAnswers" /\ handler.pc = "fetchHistory"
        /\ ~handler.failed /\ handler'.name = "none")
          => (/\ view' = "dashboard" /\ currentTest' = Null /\ studentAnswers' = <<>>
              /\ IsArray(history')
              /\ \E k \in 1..Len(history'.v) :
                    /\ history'.v[k].id = currentTest.id
                    /\ history'.v[k].score = Bind(JsNum(handler.result, "score")))]_vars

\* C12 (as claimed): the step that logs the student out leaves student null,
\* the view 'login', currentTest null, the answers empty and the history
\* empty.
C12_LogoutDiscardsTestState ==
    [][(student # Null /\ student' = Null)
          => (/\ view' = "login" /\ currentTest' = Null /\ studentAnswers' = <<>>
              /\ IsArray(history') /\ history'.v = <<>>)]_vars

-----------------------------------------------------------------------------
(* Properties of initialization on the embedded backend.                     *)

\* C13 (as claimed): on the embedded backend a Facade operation is invoked
\* only after init() has run to completion: no call is in flight, and none
\* has hit the null handle, unless the connection is open with its tables.
C13_NoCallBeforeInitCompletes ==
    isMobile =>
        \A p \in Slots : (InFlight(p) \/ procs[p].err = "TypeError") => db = "open"

\* C14 (as claimed): when a step of init() has failed on the embedded
\* backend, init() does not return normally, and once initData has ended
\* initError is set and no Facade call is in flight.
C14_InitFailureBlocksTheApp ==
    (isMobile /\ db # "open") =>
        /\ initPc # "returned"
        /\ initPc = "done" => (initError # Null /\ \A p \in Slots : ~InFlight(p))

-----------------------------------------------------------------------------
(* Properties of the backend selection.                                      *)

\* each call runs on the path of the platform: a fetch (request, response,
\* HTTP status, network error) on the networked one only, statements on the
\* local handle (query, run, the null handle) on the embedded one only, and
\* the networked platform never opens a local database
PathMatchesBackend ==
    /\ ~isMobile => db = "null"
    /\ \A p \in Slots :
        /\ (\/ procs[p].pc \in {"request", "response"}
            \/ procs[p].err = "NetworkError"
            \/ procs[p].status = 500) => ~isMobile
        /\ (\/ procs[p].pc \in {"query", "run"}
            \/ procs[p].err = "TypeError") => isMobile

\* C15: isMobile keeps the value the constructor gave it, and every Facade
\* operation runs on the one backend that value selects: the networked path
\* never uses the local database handle, the embedded path never sends a
\* request.
C15_OneBackendPerProcess ==
    [][isMobile' = isMobile /\ PathMatchesBackend']_vars

\* the four operations have returned on the embedded backend
C15_Witness ==
    /\ isMobile /\ db = "open"
    /\ loginLog # {} /\ testLog # {} /\ resultLog # {}
    /\ \E p \in Slots : GotRows(p)

-----------------------------------------------------------------------------
(* Properties of the calls the controller has outstanding.                   *)

\* C16 (as claimed): at most one Facade call of the controller is in flight,
\* the getHistory started by the [student] effect or by a submit included.
C16_OneCallOutstanding ==
    Cardinality({ p \in Slots : InFlight(p) }) <= 1

-----------------------------------------------------------------------------
(* The two backends side by side: what one call, issued alone on the store   *)
(* as it stands, gives on the embedded backend (mobile) and on the networked *)
(* one: whether it succeeds, what it returns, the table it leaves.  The      *)
(* embedded backend is taken after a completed init().                       *)

\* dataService.login(t.name, t.age, t.className)
LoginOutcome(mobile, t) ==
    LET found == ExistingStudents(t.name, t.age, t.className)
        row == NewStudent(t.name, t.age, t.className)
    IN  IF found # <<>>
        THEN [ok |-> TRUE, ret |-> StudentObject(found[1]), table |-> students]
        ELSE IF StudentRejectedOn(mobile, t.name, t.age, t.className)
        THEN [ok |-> FALSE, table |-> students]
        ELSE [ok |-> TRUE, ret |-> StudentObject(row), table |-> Append(students, row)]

\* dataService.saveTest(studentId, topic, complexity, concepts, Q)
SaveTestOutcome(mobile, studentId, topic, Q) ==
    LET row == NewTest(studentId, topic, "Easy", "",
                       StringifyQuestions(IF mobile THEN Q ELSE WireQuestions(Q)))
    IN  IF TestRejectedOn(mobile, studentId)
        THEN [ok |-> FALSE, table |-> tests]
        ELSE [ok |-> TRUE, ret |-> [id |-> Num(row.id)], table |-> Append(tests, row)]

\* dataService.saveResult(testId, answers, score, feedback, analysis)
SaveResultOutcome(mobile, testId, answers, score, feedback, analysis) ==
    LET text == Text(StringifyAnswers(answers))
        row == NewResult(testId, text, score, feedback,
                         StringifyAnalysis(IF mobile THEN analysis
                                           ELSE WireAnalysis(analysis)))
    IN  IF ResultRejectedOn(mobile, testId, text)
        THEN [ok |-> FALSE, table |-> results]
        ELSE [ok |-> TRUE, ret |-> [id |-> Num(row.id)], table |-> Append(results, row)]

\* dataService.getHistory(studentId): the row sequences it may return (rows
\* with equal created_at come in any order)
GetHistoryOutcome(mobile, studentId) ==
    { IF \E i \in 1..Len(order) : RowMalformed(JoinRow(order[i]))
      THEN [ok |-> FALSE]
      ELSE [ok |-> TRUE,
            ret |-> IF mobile THEN MapRows(order) ELSE WireRows(MapRows(order))]
        : order \in HistoryOrders(studentId) }

\* C17 (as claimed): whatever the store a sequence of calls has built, the
\* next call (login, saveTest, getHistory or saveResult, with any arguments,
\* a test id or student id that names no row included) has the same outcome
\* on the two backends: both fail, or both return the same value, and both
\* leave the same table.
C17_BackendsEquivalent ==
    /\ \A t \in SomeTriples : LoginOutcome(TRUE, t) = LoginOutcome(FALSE, t)
    /\ \A id \in IdArgs, topic \in Topics, Q \in QuestionSeqs :
          SaveTestOutcome(TRUE, id, topic, Q) = SaveTestOutcome(FALSE, id, topic, Q)
    /\ \A id \in IdArgs : GetHistoryOutcome(TRUE, id) = GetHistoryOutcome(FALSE, id)
    /\ \A id \in IdArgs, score \in Scores, fb \in Feedbacks, an \in Analyses :
          SaveResultOutcome(TRUE, id, Answers, score, fb, an)
              = SaveResultOutcome(FALSE, id, Answers, score, fb, an)

-----------------------------------------------------------------------------
(* Properties of the rows once stored.                                       *)

\* table t holds the rows of table s, unchanged and at their places
KeepsRows(s, t) == Len(s) <= Len(t) /\ \A i \in 1..Len(s) : t[i] = s[i]

\* the triple of the login call in slot p was stored when the call was issued
TripleStoredAtCall(p) ==
    \E i \in 1..procs[p].before :
        Matches(students[i], procs[p].args.name, procs[p].args.age,
                procs[p].args.className)

\* C22: the stores are append-only.  No step of a Facade operation changes or
\* removes a row of students, tests or results; a step of saveResult or of
\* getHistory leaves the tests table (the question sequences with it) as it
\* is; a step of a login whose triple was stored when it was issued leaves
\* the students table as it is.
C22_StoresAppendOnly ==
    [][/\ KeepsRows(students, students')
       /\ KeepsRows(tests, tests')
       /\ KeepsRows(results, results')
       /\ \A p \in Slots :
            (InFlight(p) /\ procs'[p].pc # procs[p].pc) =>
                /\ procs[p].h \in {"saveResult", "getHistory"} => tests' = tests
                /\ (procs[p].h = "login" /\ TripleStoredAtCall(p))
                       => students' = students]_vars

\* a login of a stored triple has returned, and a result was saved for a test
C22_Witness ==
    /\ \E l \in loginLog : l.added = 0
    /\ Len(tests) >= 1 /\ Len(results) >= 1
    /\ \E p \in Slots : GotRows(p) /\ Len(procs[p].ret) >= 1

-----------------------------------------------------------------------------
(* Properties of the results table.                                          *)

\* C19 (as claimed): each test has at most one result: no two rows of the
\* results table have the same test_id, whatever the student does in the page
\* (reopening an answered test from the history view included).
C19_AtMostOneResultPerTest ==
    \A i, j \in 1..Len(results) : results[i].test_id = results[j].test_id => i = j

\* C20 (as claimed): on either backend every row of the results table refers
\* to a stored test: its test_id is the id of a row of the tests table, also
\* after a saveResult whose test id names no test.
C20_ResultsReferToStoredTests ==
    \A i \in 1..Len(results) : \E k \in 1..Len(tests) : tests[k].id = results[i].test_id

\* C21 (as claimed): every row of the results table has a score that is an
\* integer of 0..100, whatever the evaluation service answered (an empty
\* object included).
C21_StoredScoresInRange ==
    \A i \in 1..Len(results) : IsNum(results[i].score) /\ results[i].score.v \in 0..100

-----------------------------------------------------------------------------
(* Properties of the way the facade reports a failure of the storage.        *)

\* C18 (as claimed): a Facade call that completed normally (its promise
\* resolved) met no storage failure: the server did not answer with an error
\* status, and what login, saveTest and saveResult resolved with is a record
\* that has its id.  A call whose storage failed ends rejected instead.
C18_StorageFailureRejects ==
    \A p \in Slots :
        procs[p].pc = "returned" =>
            /\ procs[p].status = 200
            /\ procs[p].h # "getHistory" => IsNum(Prop(procs[p].ret, "id"))

-----------------------------------------------------------------------------
(* Properties of the controller's state after failures.                      *)

\* C24 (as claimed): whatever call has failed, the controller's state is
\* well formed: student is null or a student record with its id, and history
\* is a sequence of tests (the page can be rendered and an operation retried).
C24_ControllerWellFormed ==
    /\ student = Null \/ IsNum(Prop(student, "id"))
    /\ IsArray(history)

\* C26 (as claimed): whenever a student is logged in, every test of the
\* history in memory is a test of that student, also after a logout and the
\* login of another student.
C26_HistoryBelongsToStudent ==
    (student # Null /\ IsArray(history)) =>
        \A k \in 1..Len(history.v) : history.v[k].student_id = Prop(student, "id")

\* C27 (as claimed): while the answer sheet of a test is shown, the answer
\* mapping holds only answers that were typed into the sheet of that test.
C27_AnswersBelongToTest ==
    (view = "enter-answers" /\ currentTest # Null /\ IsNum(Prop(currentTest, "id"))) =>
        \A q \in DOMAIN studentAnswers :
            studentAnswers[q] = SheetAnswers[currentTest.id.v]

-----------------------------------------------------------------------------
(* Properties of the order of the calls inside a handler.                    *)

\* C25: inside handleGenerateTest and handleSubmitAnswers the calls come in a
\* fixed order.  saveTest is issued only when generateQuestions has resolved,
\* saveResult only when evaluateAnswers has resolved, the history refresh
\* only when saveResult has returned, and the handler changes the view only
\* after its last call has ended (saveTest returned; the refresh ended).
C25_CallsInOrder ==
    [][LET c == procs[HandlerSlot]
           d == procs'[HandlerSlot]
       IN  /\ (d.h = "saveTest" /\ c.h # "saveTest")
                 => (ai.fn = "generateQuestions" /\ ai.pc = "resolved")
           /\ (d.h = "saveResult" /\ c.h # "saveResult")
                 => (ai.fn = "evaluateAnswers" /\ ai.pc = "resolved")
           /\ (handler.name = "handleSubmitAnswers" /\ d.h = "getHistory"
                  /\ c.h # "getHistory")
                 => (c.h = "saveResult" /\ c.pc = "returned")
           /\ (handler.name = "handleGenerateTest" /\ handler' # handler
                  /\ view' # view)
                 => (c.h = "saveTest" /\ c.pc = "returned")
           /\ (handler.name = "handleSubmitAnswers" /\ handler' # handler
                  /\ view' # view)
                 => (c.h = "getHistory" /\ c.pc \in {"returned", "threw"})]_vars

\* a test was generated and its answers were submitted: both handlers have
\* run to their end and the refreshed history shows the score
C25_Witness ==
    /\ handler = NoHandler /\ view = "dashboard"
    /\ Len(tests) >= 1 /\ Len(results) >= 1
    /\ IsArray(history) /\ Len(history.v) >= 1 /\ history.v[1].score # Null



\* what the adapter function of the pending request makes of a text
AdapterResult(text) ==
    IF ai.fn = "generateQuestions" THEN GenerateQuestions(text) ELSE EvaluateAnswers(text)

\* C23 (as claimed): whatever text the service answers a pending request
\* with, the adapter returns a value; for no text and for a text that is not
\* JSON the value is the empty question sequence (generateQuestions) or the
\* empty object (evaluateAnswers).
C23_AdapterToleratesBadText ==
    ai.pc = "pending" =>
        \A text \in (IF ai.fn = "generateQuestions" THEN QuestionTexts
                     ELSE EvaluationTexts) :
            /\ AdapterResult(text).ok
            /\ (text = <<>> \/ ~JSONParse(text).ok) => AdapterResult(text).val = <<>>

-----------------------------------------------------------------------------
(* Properties of the loading flag.                                           *)

\* C29 (as claimed): the loading flag serializes the controller.  While a
\* handler is in flight loading is true and nothing but the handler's own
\* steps changes the view, the student, the current test or the answers; when
\* the handler ends, with success or failure, loading is false again.
C29_LoadingSerializes ==
    [][/\ (loading /\ handler' = handler)
            => /\ view' = view /\ student' = student
               /\ currentTest' = currentTest /\ studentAnswers' = studentAnswers
       /\ handler'.name # "none" => loading'
       /\ (handler.name # "none" /\ handler'.name = "none") => ~loading']_vars

====
